---- MODULE Spec2Model ----
(***************************************************************************)
(* Model of MeridianWrapper (src/unnamed/part_005): the wrapper's          *)
(* lifecycle (load_data, preprocess_data, build_model, fit_model) and its  *)
(* two numeric operations, get_optimal_budget_allocation ("allocate") and  *)
(* generate_report_data ("aggregate").                                     *)
(*                                                                         *)
(* JavaScript numbers are modelled as exact rationals extended with NaN,   *)
(* +Infinity and -Infinity; the division, multiplication, addition and     *)
(* comparison operators follow IEEE-754 on those special values (x/0,      *)
(* 0*Infinity, Infinity-Infinity, comparisons with NaN).  Rounding of      *)
(* finite results is not modelled.                                         *)
(***************************************************************************)
EXTENDS Integers, Sequences, FiniteSets, TLC

----------------------------------------------------------------------------
(* Bounds of the model *)

\* number of periods of a contribution series (90 in fit_model)
SeriesLen == 3

----------------------------------------------------------------------------
(* JavaScript numbers *)

Abs(i) == IF i < 0 THEN -i ELSE i

RECURSIVE GCD(_, _)
GCD(a, b) == IF b = 0 THEN a ELSE GCD(b, a % b)

\* the finite number n/d (d # 0), in lowest terms with a positive denominator
Fin(n, d) ==
  LET g == GCD(Abs(n), Abs(d))
      s == IF d < 0 THEN -1 ELSE 1
  IN  [k |-> "fin", n |-> (s * n) \div g, d |-> (s * d) \div g]

Num(i) == Fin(i, 1)
NaN == [k |-> "nan", n |-> 0, d |-> 1]
PInf == [k |-> "inf", n |-> 1, d |-> 1]
NInf == [k |-> "inf", n |-> -1, d |-> 1]
Zero == Num(0)

IsNaN(x) == x.k = "nan"
IsFinite(x) == x.k = "fin"
Sign(x) == IF x.n > 0 THEN 1 ELSE IF x.n < 0 THEN -1 ELSE 0
InfOf(s) == IF s > 0 THEN PInf ELSE NInf

\* a + b
NumAdd(a, b) ==
  IF IsNaN(a) \/ IsNaN(b) THEN NaN
  ELSE IF a.k = "inf" /\ b.k = "inf" THEN (IF a.n = b.n THEN a ELSE NaN)
  ELSE IF a.k = "inf" THEN a
  ELSE IF b.k = "inf" THEN b
  ELSE Fin(a.n * b.d + b.n * a.d, a.d * b.d)

\* a * b
NumMul(a, b) ==
  IF IsNaN(a) \/ IsNaN(b) THEN NaN
  ELSE IF a.k = "inf" \/ b.k = "inf"
       THEN (IF Sign(a) * Sign(b) = 0 THEN NaN ELSE InfOf(Sign(a) * Sign(b)))
  ELSE Fin(a.n * b.n, a.d * b.d)

\* a / b
NumDiv(a, b) ==
  IF IsNaN(a) \/ IsNaN(b) THEN NaN
  ELSE IF a.k = "inf" /\ b.k = "inf" THEN NaN
  ELSE IF a.k = "inf" THEN InfOf(IF Sign(b) < 0 THEN -Sign(a) ELSE Sign(a))
  ELSE IF b.k = "inf" THEN Zero
  ELSE IF b.n = 0 THEN (IF a.n = 0 THEN NaN ELSE InfOf(Sign(a)))
  ELSE Fin(a.n * b.d, a.d * b.n)

\* a - b
NumSub(a, b) == NumAdd(a, NumMul(Num(-1), b))

\* a < b
NumLt(a, b) ==
  IF IsNaN(a) \/ IsNaN(b) THEN FALSE
  ELSE IF a.k = "inf" \/ b.k = "inf"
       THEN IF a.k = "inf" /\ b.k = "inf" THEN a.n < b.n
            ELSE IF a.k = "inf" THEN a.n < 0
            ELSE b.n > 0
  ELSE a.n * b.d < b.n * a.d

\* a > b
NumGt(a, b) == NumLt(b, a)

\* a <= b
NumLe(a, b) == ~IsNaN(a) /\ ~IsNaN(b) /\ ~NumLt(b, a)

\* a !== b
NumNeq(a, b) == IsNaN(a) \/ IsNaN(b) \/ a # b

\* Math.max(a, b)
NumMax(a, b) == IF IsNaN(a) \/ IsNaN(b) THEN NaN ELSE IF NumLt(a, b) THEN b ELSE a

\* sum of f[c] over c \in S, as Array.prototype.reduce with initial value 0
RECURSIVE SumOver(_, _)
SumOver(f, S) ==
  IF S = {} THEN Zero
  ELSE LET c == CHOOSE x \in S : TRUE IN NumAdd(SumOver(f, S \ {c}), f[c])

\* sum of the elements of a sequence of numbers (reduce with initial value 0)
RECURSIVE SumSeq(_)
SumSeq(s) == IF s = <<>> THEN Zero ELSE NumAdd(SumSeq(SubSeq(s, 1, Len(s) - 1)), s[Len(s)])

Range(s) == {s[i] : i \in DOMAIN s}

----------------------------------------------------------------------------
(* Values *)

Channels == {"A", "B"}

\* the empty object {} / an empty mapping
Empty == <<>>

NullData == [null |-> TRUE, channels |-> <<>>]
\* a data object whose "channels" member has the given keys, in insertion order
DataObj(keys) == [null |-> FALSE, channels |-> keys]

NullModel == [null |-> TRUE, channels |-> <<>>]
NullResults == [null |-> TRUE, channel_contributions |-> Empty, roi_values |-> Empty]

\* 0.2 and 1.96 of fit_model
StdFactor == Fin(1, 5)
Z95 == Fin(49, 25)

\* RoiEstimate with the two bounds exchanged
RoiEstimateSwapped(meanRoi) ==
  LET stdRoi == NumMul(meanRoi, StdFactor)
  IN  [mean |-> meanRoi,
       std |-> stdRoi,
       lower_bound |-> NumAdd(meanRoi, NumMul(Z95, stdRoi)),
       upper_bound |-> NumMax(Zero, NumSub(meanRoi, NumMul(Z95, stdRoi)))]

\* the ROI record fit_model stores for a drawn mean
RoiEstimate(meanRoi) ==
  LET stdRoi == NumMul(meanRoi, StdFactor)
  IN  [mean |-> meanRoi,
       std |-> stdRoi,
       lower_bound |-> NumMax(Zero, NumSub(meanRoi, NumMul(Z95, stdRoi))),
       upper_bound |-> NumAdd(meanRoi, NumMul(Z95, stdRoi))]

\* a constraint entry {min?, max?}
Constraint(hasMin, min, hasMax, max) ==
  [hasMin |-> hasMin, min |-> min, hasMax |-> hasMax, max |-> max]

----------------------------------------------------------------------------
(* get_optimal_budget_allocation: the computation *)

\* roiMeans: the mean of every fitted channel
RoiMeans(roi_values) == [c \in DOMAIN roi_values |-> roi_values[c].mean]

\* totalRoi
TotalRoi(roiMeans) == SumOver(roiMeans, DOMAIN roiMeans)

\* SeedAllocation as an equal split of the budget
SeedAllocationEqualSplit(roiMeans, totalBudget) ==
  [c \in DOMAIN roiMeans |-> NumDiv(totalBudget, Num(Cardinality(DOMAIN roiMeans)))]

\* initial allocation based on ROI
SeedAllocation(roiMeans, totalBudget) ==
  [c \in DOMAIN roiMeans |->
     NumMul(NumDiv(roiMeans[c], TotalRoi(roiMeans)), totalBudget)]

\* ClampOne with the max comparison dropped: the amount is set to max
\* whenever a max is present
ClampOneAlwaysMax(amount, con) ==
  LET low == IF con.hasMin /\ NumLt(amount, con.min) THEN con.min ELSE amount
  IN  IF con.hasMax THEN con.max ELSE low

\* the two clamps applied to one channel's amount
ClampOne(amount, con) ==
  LET low == IF con.hasMin /\ NumLt(amount, con.min) THEN con.min ELSE amount
  IN  IF con.hasMax /\ NumGt(low, con.max) THEN con.max ELSE low

\* ApplyConstraints without "channel in allocation", a channel missing from
\* the allocation counting as 0: a positive min adds the channel
ApplyConstraintsUnfitted(allocation, constraints) ==
  LET added == {c \in DOMAIN constraints \ DOMAIN allocation :
                  constraints[c].hasMin /\ NumLt(Zero, constraints[c].min)}
  IN  [c \in DOMAIN allocation \cup added |->
         IF c \in added THEN constraints[c].min
         ELSE IF c \in DOMAIN constraints THEN ClampOne(allocation[c], constraints[c])
         ELSE allocation[c]]

\* "Apply constraints if provided": only channels present in the allocation
ApplyConstraints(allocation, constraints) ==
  [c \in DOMAIN allocation |->
     IF c \in DOMAIN constraints THEN ClampOne(allocation[c], constraints[c])
     ELSE allocation[c]]

\* "Normalize to ensure total equals budget"
Normalize(allocation, totalBudget) ==
  LET currentTotal == SumOver(allocation, DOMAIN allocation)
      scalingFactor == NumDiv(totalBudget, currentTotal)
  IN  IF NumNeq(currentTotal, totalBudget)
      THEN [c \in DOMAIN allocation |-> NumMul(allocation[c], scalingFactor)]
      ELSE allocation

\* the allocation returned for fitted ROI values, a budget and constraints
Allocate(roi_values, totalBudget, constraints) ==
  Normalize(ApplyConstraints(SeedAllocation(RoiMeans(roi_values), totalBudget),
                             constraints),
            totalBudget)

----------------------------------------------------------------------------
(* generate_report_data: the computation *)

\* the first loop with "totalContribution = channelContribution" for "+=":
\* only the last channel is counted
TotalContributionLastOnly(channel_contributions, cols) ==
  IF cols = <<>> THEN Zero ELSE SumSeq(channel_contributions[cols[Len(cols)]])

\* the grand total accumulated by the first loop over channelColumns
RECURSIVE TotalContribution(_, _)
TotalContribution(channel_contributions, cols) ==
  IF cols = <<>> THEN Zero
  ELSE NumAdd(TotalContribution(channel_contributions, SubSeq(cols, 1, Len(cols) - 1)),
              SumSeq(channel_contributions[cols[Len(cols)]]))

\* ContributionPercentage scaled to 0..100
ContributionPercentageOfHundred(total_contribution, totalContribution) ==
  NumMul(Num(100), NumDiv(total_contribution, totalContribution))

\* contribution_percentage of a channel total (second loop)
ContributionPercentage(total_contribution, totalContribution) ==
  NumDiv(total_contribution, totalContribution)

\* the share computed inside the first loop, from the total accumulated so
\* far
ChannelPerformanceRunningTotal(res, cols) ==
  [c \in Range(cols) |->
     LET last == CHOOSE i \in DOMAIN cols :
                   cols[i] = c /\ \A k \in DOMAIN cols : cols[k] = c => k <= i
         totalContribution ==
           TotalContribution(res.channel_contributions, SubSeq(cols, 1, last))
         channelContribution == SumSeq(res.channel_contributions[c])
     IN  [roi |-> res.roi_values[c].mean,
          roi_lower |-> res.roi_values[c].lower_bound,
          roi_upper |-> res.roi_values[c].upper_bound,
          total_contribution |-> channelContribution,
          contribution_percentage |->
            ContributionPercentage(channelContribution, totalContribution)]]

\* reportData.channel_performance, for channelColumns all present in the results
ChannelPerformance(res, cols) ==
  LET totalContribution == TotalContribution(res.channel_contributions, cols)
  IN  [c \in Range(cols) |->
         LET channelContribution == SumSeq(res.channel_contributions[c])
         IN  [roi |-> res.roi_values[c].mean,
              roi_lower |-> res.roi_values[c].lower_bound,
              roi_upper |-> res.roi_values[c].upper_bound,
              total_contribution |-> channelContribution,
              contribution_percentage |->
                ContributionPercentage(channelContribution, totalContribution)]]

\* reading .reduce of a channel missing from the results throws a TypeError
ReportThrows(res, cols) ==
  \E i \in DOMAIN cols : cols[i] \notin DOMAIN res.channel_contributions

----------------------------------------------------------------------------
(* Inputs *)

\* data objects passed to load_data: null, an object without channels, an
\* object with channel keys
DataInputs == {NullData, DataObj(<<>>), DataObj(<<"A", "B">>)}

\* channelColumns arrays passed to load_data ([] is the default)
ColumnInputs == {<<>>, <<"B">>, <<"A", "A">>}

\* values of Math.random() * 4.5 + 0.5
MockRoiMeans == {Fin(1, 2), Num(1), Num(4)}

\* contribution series of SeriesLen values of Math.random() * 2000 + 500
MockSeries ==
  {[i \in 1..SeriesLen |-> Num(500)],
   [i \in 1..SeriesLen |-> Num(500 + 500 * (i % 4))]}

\* totalBudget arguments
Budgets == {Num(100000)}

\* constraint entries a request can carry for one channel
RequestConstraints ==
  {Constraint(FALSE, Zero, TRUE, Num(50000)), Constraint(TRUE, Num(90000), FALSE, Zero)}

\* ROI means, contribution series, channel lists, budgets and constraint
\* entries handed to the two operations through their interface (spec.md 6):
\* any float as ROI mean, non-negative contributions, min and max >= 0
KernelRoiMeans == {Num(-2), Num(-1), Zero, Num(1), Num(4)}
KernelSeries ==
  {[i \in 1..SeriesLen |-> Zero],
   [i \in 1..SeriesLen |-> Num(100 * i)],
   [i \in 1..(SeriesLen - 1) |-> Num(100 * i)]}
KernelColumns == {<<>>, <<"A">>, <<"A", "B">>}
KernelBudgets == {Num(60000), Num(100000)}
KernelBounds == {Zero, Num(50000), Num(90000)}
KernelConstraints ==
  {Constraint(FALSE, Zero, FALSE, Zero)}
  \cup {Constraint(TRUE, lo, FALSE, Zero) : lo \in KernelBounds}
  \cup {Constraint(FALSE, Zero, TRUE, hi) : hi \in KernelBounds}
  \cup {Constraint(TRUE, lo, TRUE, hi) : lo \in KernelBounds, hi \in KernelBounds}

\* a point ROI estimate supplied by the caller
PointEstimate(meanRoi) ==
  [mean |-> meanRoi, std |-> Zero, lower_bound |-> meanRoi, upper_bound |-> meanRoi]

\* every constraints mapping over the channels with entries from cons
ConstraintMaps(cons) == UNION {[S -> cons] : S \in SUBSET Channels}

----------------------------------------------------------------------------
(* The wrapper *)

\* data, model, results, channelColumns: the fields of the wrapper in use;
\* args, ret: the arguments and the outcome of its last call;
\* route: the model API requests in flight (NoRoute where the wrapper is
\* driven directly)
VARIABLES data, model, results, channelColumns, args, ret, route

vars == <<data, model, results, channelColumns, args, ret, route>>

NoRoute == <<>>

NoArgs == [totalBudget |-> Zero, constraints |-> Empty]

Returned(op, value) == [op |-> op, threw |-> FALSE, error |-> "", value |-> value]
Thrown(op, error) == [op |-> op, threw |-> TRUE, error |-> error, value |-> Empty]

NoData == "No data loaded. Call load_data() first."
NoModel == "No model built. Call build_model() first."
NoResults == "No model results. Call fit_model() first."
TypeError == "TypeError"

\* constructor
Init ==
  /\ data = NullData
  /\ model = NullModel
  /\ results = NullResults
  /\ channelColumns = <<>>
  /\ args = NoArgs
  /\ ret = Returned("constructor", Empty)
  /\ route = NoRoute

load_data(d, cols) ==
  /\ data' = d
  /\ IF Len(cols) = 0 /\ d.null
     THEN /\ channelColumns' = channelColumns
          /\ ret' = Thrown("load_data", TypeError)
     ELSE /\ channelColumns' = (IF Len(cols) > 0 THEN cols ELSE d.channels)
          /\ ret' = Returned("load_data", Empty)
  /\ args' = NoArgs
  /\ UNCHANGED <<model, results>>

preprocess_data ==
  /\ ret' = (IF data.null THEN Thrown("preprocess_data", NoData)
             ELSE Returned("preprocess_data", Empty))
  /\ args' = NoArgs
  /\ UNCHANGED <<data, model, results, channelColumns>>

\* build_model without its "No data loaded" guard
build_modelUnguarded ==
  /\ model' = [null |-> FALSE, channels |-> channelColumns]
  /\ ret' = Returned("build_model", Empty)
  /\ args' = NoArgs
  /\ UNCHANGED <<data, results, channelColumns>>

build_model ==
  /\ IF data.null
     THEN /\ ret' = Thrown("build_model", NoData)
          /\ model' = model
     ELSE /\ model' = [null |-> FALSE, channels |-> channelColumns]
          /\ ret' = Returned("build_model", Empty)
  /\ args' = NoArgs
  /\ UNCHANGED <<data, results, channelColumns>>

fit_model ==
  /\ IF model.null
     THEN /\ ret' = Thrown("fit_model", NoModel)
          /\ results' = results
     ELSE /\ \E cc \in [Range(channelColumns) -> MockSeries],
                rm \in [Range(channelColumns) -> MockRoiMeans] :
               results' = [null |-> FALSE,
                           channel_contributions |-> cc,
                           roi_values |-> [c \in Range(channelColumns) |-> RoiEstimate(rm[c])]]
          /\ ret' = Returned("fit_model", Empty)
  /\ args' = NoArgs
  /\ UNCHANGED <<data, model, channelColumns>>

\* get_optimal_budget_allocation keeping its allocation in this.results, as
\* the new ROI values
get_optimal_budget_allocationStoring(totalBudget, constraints) ==
  /\ args' = [totalBudget |-> totalBudget, constraints |-> constraints]
  /\ IF results.null
     THEN /\ ret' = Thrown("get_optimal_budget_allocation", NoResults)
          /\ results' = results
     ELSE LET a == Allocate(results.roi_values, totalBudget, constraints)
          IN  /\ ret' = Returned("get_optimal_budget_allocation", a)
              /\ results' = [results EXCEPT !.roi_values =
                               [c \in DOMAIN a |-> PointEstimate(a[c])]]
  /\ UNCHANGED <<data, model, channelColumns>>

get_optimal_budget_allocation(totalBudget, constraints) ==
  /\ args' = [totalBudget |-> totalBudget, constraints |-> constraints]
  /\ ret' = (IF results.null THEN Thrown("get_optimal_budget_allocation", NoResults)
             ELSE Returned("get_optimal_budget_allocation",
                           Allocate(results.roi_values, totalBudget, constraints)))
  /\ UNCHANGED <<data, model, results, channelColumns>>

\* generate_report_data without its "No model results" guard
generate_report_dataUnguarded ==
  /\ ret' = (IF ReportThrows(results, channelColumns)
             THEN Thrown("generate_report_data", TypeError)
             ELSE Returned("generate_report_data",
                           ChannelPerformance(results, channelColumns)))
  /\ args' = NoArgs
  /\ UNCHANGED <<data, model, results, channelColumns>>

generate_report_data ==
  /\ ret' = (IF results.null THEN Thrown("generate_report_data", NoResults)
             ELSE IF ReportThrows(results, channelColumns)
             THEN Thrown("generate_report_data", TypeError)
             ELSE Returned("generate_report_data",
                           ChannelPerformance(results, channelColumns)))
  /\ args' = NoArgs
  /\ UNCHANGED <<data, model, results, channelColumns>>

\* one call on the wrapper, by a caller that holds it
Call ==
  \/ \E d \in DataInputs, cols \in ColumnInputs : load_data(d, cols)
  \/ preprocess_data
  \/ build_model
  \/ fit_model
  \/ \E b \in Budgets, c \in ConstraintMaps(RequestConstraints) :
       get_optimal_budget_allocation(b, c)
  \/ generate_report_data

Next == Call /\ UNCHANGED route

Spec == Init /\ [][Next]_vars

----------------------------------------------------------------------------
(* The two operations as functions of their inputs: a wrapper holding      *)
(* results supplied through the interface, on which one call of allocate   *)
(* or aggregate is made                                                    *)

KernelInit ==
  \E cols \in KernelColumns :
    \E cc \in [Range(cols) -> KernelSeries], rm \in [Range(cols) -> KernelRoiMeans] :
      /\ data = DataObj(cols)
      /\ model = [null |-> FALSE, channels |-> cols]
      /\ results = [null |-> FALSE,
                    channel_contributions |-> cc,
                    roi_values |-> [c \in Range(cols) |-> PointEstimate(rm[c])]]
      /\ channelColumns = cols
      /\ args = NoArgs
      /\ ret = Returned("fit_model", Empty)
      /\ route = NoRoute

KernelCall ==
  \/ \E b \in KernelBudgets, c \in ConstraintMaps(KernelConstraints) :
       get_optimal_budget_allocation(b, c)
  \/ generate_report_data

KernelNext == ret.op = "fit_model" /\ KernelCall /\ UNCHANGED route

KernelSpec == KernelInit /\ [][KernelNext]_vars

----------------------------------------------------------------------------
(* The model API route (POST): every request creates its own wrapper and   *)
(* drives it through load_data .. generate_report_data.  Requests are      *)
(* interleaved at the granularity of one wrapper call; the wrapper of the  *)
(* request that is running is held in data, model, results and             *)
(* channelColumns, the wrappers of the others in route.parked.             *)

Requests == {1, 2}

\* a request: its body and the outcomes of the two external steps (throws:
\* the external step that rejects, "" for none)
Body(hasSource, fetchOk, processOk, d, optimizeBudget, totalBudget, budgetConstraints) ==
  [dataSourceId |-> hasSource, fetchOk |-> fetchOk, processOk |-> processOk,
   data |-> d, optimizeBudget |-> optimizeBudget, totalBudget |-> totalBudget,
   budgetConstraints |-> budgetConstraints, throws |-> ""]

\* the request b with the Python script of the step failing to run
Throwing(b, step) == [b EXCEPT !.throws = step]

\* requests handled: without dataSourceId, with a failed fetch, with failed
\* processing, with a fetch and with processing that throw, with processed
\* data that is null, and three that run the whole wrapper lifecycle
\* (totalBudget 0: not given)
RouteBodies ==
  {Throwing(Body(TRUE, TRUE, TRUE, DataObj(<<"A">>), FALSE, Zero, Empty), "fetch"),
   Throwing(Body(TRUE, TRUE, TRUE, DataObj(<<"A">>), FALSE, Zero, Empty), "process")}
  \cup
  {Body(FALSE, TRUE, TRUE, DataObj(<<"A">>), FALSE, Zero, Empty),
   Body(TRUE, FALSE, TRUE, DataObj(<<"A">>), FALSE, Zero, Empty),
   Body(TRUE, TRUE, FALSE, DataObj(<<"A">>), FALSE, Zero, Empty),
   Body(TRUE, TRUE, TRUE, NullData, FALSE, Zero, Empty),
   Body(TRUE, TRUE, TRUE, DataObj(<<"A", "B">>), FALSE, Zero, Empty),
   Body(TRUE, TRUE, TRUE, DataObj(<<"A">>), TRUE, Num(100000),
        [c \in {"A"} |-> Constraint(FALSE, Zero, TRUE, Num(50000))]),
   Body(TRUE, TRUE, TRUE, DataObj(<<"A", "B">>), TRUE, Zero, Empty)}

\* the sum of all values of data.channels: 50000 per channel column
DataTotal(d) == Num(50000 * Len(d.channels))

\* modelConfig.totalBudget || (sum of the channel data) * 1.1
RouteBudget(b) ==
  IF b.totalBudget # Zero THEN b.totalBudget
  ELSE NumMul(DataTotal(b.data), Fin(11, 10))

\* new MeridianWrapper()
NewWrapper ==
  [data |-> NullData, model |-> NullModel, results |-> NullResults,
   channelColumns |-> <<>>]

NoAllocation == [null |-> TRUE, value |-> Empty]
NoResponse ==
  [status |-> 0, results |-> NullResults, reportData |-> Empty,
   budgetAllocation |-> NoAllocation]
ErrorResponse(status) == [NoResponse EXCEPT !.status = status]

RouteInit ==
  /\ data = NullData
  /\ model = NullModel
  /\ results = NullResults
  /\ channelColumns = <<>>
  /\ args = NoArgs
  /\ ret = Returned("constructor", Empty)
  /\ \E bodies \in [Requests -> RouteBodies] :
       route = [cur |-> 1,
                body |-> bodies,
                pc |-> [i \in Requests |-> "validate"],
                parked |-> [i \in Requests |-> NewWrapper],
                modelResults |-> [i \in Requests |-> NullResults],
                budgetAllocation |-> [i \in Requests |-> NoAllocation],
                response |-> [i \in Requests |-> NoResponse]]

\* one wrapper at module level, shared by the requests: request i goes on
\* with the wrapper as the other request left it
SwitchToShared(i) ==
  /\ route.cur # i
  /\ route' = [route EXCEPT !.cur = i]
  /\ UNCHANGED <<data, model, results, channelColumns, args, ret>>

\* every request with a wrapper of its own: the running request's wrapper is
\* put aside and that of request i is taken up
SwitchTo(i) ==
  /\ route.cur # i
  /\ route' = [route EXCEPT
       !.cur = i,
       !.parked[route.cur] = [data |-> data, model |-> model, results |-> results,
                              channelColumns |-> channelColumns]]
  /\ data' = route.parked[i].data
  /\ model' = route.parked[i].model
  /\ results' = route.parked[i].results
  /\ channelColumns' = route.parked[i].channelColumns
  /\ UNCHANGED <<args, ret>>

\* request i is at step pc and is the one running
At(i, pc) == route.cur = i /\ route.pc[i] = pc

\* AfterCall without the catch block: a call that throws ends the handler
\* with no response
AfterCallUncaught(i, pc) ==
  IF ret'.threw
  THEN [route EXCEPT !.pc[i] = "done"]
  ELSE [route EXCEPT !.pc[i] = pc]

\* the route after a wrapper call of request i: on to pc, or the catch
\* block's 500 response when the call threw
AfterCall(i, pc) ==
  IF ret'.threw
  THEN [route EXCEPT !.pc[i] = "done", !.response[i] = ErrorResponse(500)]
  ELSE [route EXCEPT !.pc[i] = pc]

\* lines 7-16
Validate(i) ==
  /\ At(i, "validate")
  /\ route' = IF route.body[i].dataSourceId
              THEN [route EXCEPT !.pc[i] = "fetch"]
              ELSE [route EXCEPT !.pc[i] = "done", !.response[i] = ErrorResponse(400)]
  /\ UNCHANGED <<data, model, results, channelColumns, args, ret>>

\* lines 18-33
Fetch(i) ==
  /\ At(i, "fetch")
  /\ route' = IF route.body[i].throws = "fetch"
              THEN [route EXCEPT !.pc[i] = "done", !.response[i] = ErrorResponse(500)]
              ELSE IF route.body[i].fetchOk
              THEN [route EXCEPT !.pc[i] = "process"]
              ELSE [route EXCEPT !.pc[i] = "done", !.response[i] = ErrorResponse(400)]
  /\ UNCHANGED <<data, model, results, channelColumns, args, ret>>

\* lines 35-50
Process(i) ==
  /\ At(i, "process")
  /\ route' = IF route.body[i].throws = "process"
              THEN [route EXCEPT !.pc[i] = "done", !.response[i] = ErrorResponse(500)]
              ELSE IF route.body[i].processOk
              THEN [route EXCEPT !.pc[i] = "load_data"]
              ELSE [route EXCEPT !.pc[i] = "done", !.response[i] = ErrorResponse(400)]
  /\ UNCHANGED <<data, model, results, channelColumns, args, ret>>

\* the route without its preprocess_data and build_model calls: fit_model
\* follows load_data
RouteLoadThenFit(i) ==
  /\ At(i, "load_data")
  /\ load_data(route.body[i].data, <<>>)
  /\ route' = AfterCall(i, "fit_model")

\* lines 53-57
RouteLoad(i) ==
  /\ At(i, "load_data")
  /\ load_data(route.body[i].data, <<>>)
  /\ route' = AfterCall(i, "preprocess_data")

\* line 60
RoutePreprocess(i) ==
  /\ At(i, "preprocess_data")
  /\ preprocess_data
  /\ route' = AfterCall(i, "build_model")

\* lines 63-66
RouteBuild(i) ==
  /\ At(i, "build_model")
  /\ build_model
  /\ route' = AfterCall(i, "fit_model")

\* lines 67-71
RouteFit(i) ==
  /\ At(i, "fit_model")
  /\ fit_model
  /\ route' = [AfterCall(i, IF route.body[i].optimizeBudget THEN "allocate" ELSE "report")
                 EXCEPT !.modelResults[i] = results']

\* lines 72-78
RouteAllocate(i) ==
  /\ At(i, "allocate")
  /\ get_optimal_budget_allocation(RouteBudget(route.body[i]),
                                   route.body[i].budgetConstraints)
  /\ route' = [AfterCall(i, "report")
                 EXCEPT !.budgetAllocation[i] =
                          IF ret'.threw THEN NoAllocation
                          ELSE [null |-> FALSE, value |-> ret'.value]]

\* lines 80-91
RouteReport(i) ==
  /\ At(i, "report")
  /\ generate_report_data
  /\ route' = IF ret'.threw
              THEN [route EXCEPT !.pc[i] = "done", !.response[i] = ErrorResponse(500)]
              ELSE [route EXCEPT
                      !.pc[i] = "done",
                      !.response[i] = [status |-> 200,
                                       results |-> route.modelResults[i],
                                       reportData |-> ret'.value,
                                       budgetAllocation |-> route.budgetAllocation[i]]]

RouteNext ==
  \E i \in Requests :
    \/ SwitchTo(i)
    \/ Validate(i)
    \/ Fetch(i)
    \/ Process(i)
    \/ RouteLoad(i)
    \/ RoutePreprocess(i)
    \/ RouteBuild(i)
    \/ RouteFit(i)
    \/ RouteAllocate(i)
    \/ RouteReport(i)

RouteSpec == RouteInit /\ [][RouteNext]_vars

----------------------------------------------------------------------------
(* Vocabulary of the claims *)

\* |a - b| <= 1e-6, for finite a and b
WithinTol(a, b) ==
  /\ IsFinite(a) /\ IsFinite(b)
  /\ LET diff == NumSub(a, b)
         n == Abs(diff.n)
     IN  n = 0 \/ (n < 2000 /\ n * 1000000 <= diff.d)

AllocCalled == ret.op = "get_optimal_budget_allocation" /\ ~results.null
AllocReturned == AllocCalled /\ ~ret.threw
ReportCalled == ret.op = "generate_report_data" /\ ~results.null
ReportReturned == ReportCalled /\ ~ret.threw

fitted == DOMAIN results.roi_values
roi == RoiMeans(results.roi_values)
weightSum == TotalRoi(roi)

HasMin(c) == c \in DOMAIN args.constraints /\ args.constraints[c].hasMin
HasMax(c) == c \in DOMAIN args.constraints /\ args.constraints[c].hasMax
\* the interval of a channel: [0, totalBudget] where no bound was supplied
EffMin(c) == IF HasMin(c) THEN args.constraints[c].min ELSE Zero
EffMax(c) == IF HasMax(c) THEN args.constraints[c].max ELSE args.totalBudget
SumMin == SumOver([c \in fitted |-> EffMin(c)], fitted)
SumMax == SumOver([c \in fitted |-> EffMax(c)], fitted)

Feasible ==
  /\ \A c \in fitted : NumLe(EffMin(c), EffMax(c))
  /\ NumLe(SumMin, args.totalBudget)
  /\ NumLe(args.totalBudget, SumMax)

Infeasible == NumGt(SumMin, args.totalBudget) \/ NumLt(SumMax, args.totalBudget)

\* the proportional share (roi[c] / weightSum) * totalBudget
Proportional(c) == NumDiv(NumMul(roi[c], args.totalBudget), weightSum)

\* no clamp changes a seed
NonBinding ==
  \A c \in fitted :
    /\ HasMin(c) => NumLe(args.constraints[c].min, Proportional(c))
    /\ HasMax(c) => NumLe(Proportional(c), args.constraints[c].max)

allocation == ret.value
allocationTotal == SumOver(allocation, DOMAIN allocation)

----------------------------------------------------------------------------
(* Claims about get_optimal_budget_allocation *)

InBounds(c) ==
  /\ HasMin(c) => (NumLe(args.constraints[c].min, allocation[c])
                     \/ WithinTol(allocation[c], args.constraints[c].min))
  /\ HasMax(c) => (NumLe(allocation[c], args.constraints[c].max)
                     \/ WithinTol(allocation[c], args.constraints[c].max))

C2_BoundsRespected ==
  (AllocReturned /\ NumGt(weightSum, Zero) /\ NumGt(args.totalBudget, Zero) /\ Feasible)
    => \A c \in fitted : InBounds(c)

\* C3: constraints jointly incompatible with the total budget (sum of mins
\* above it or sum of maxes below it) make allocate fail with
\* InfeasibleConstraintsError and return no allocation.
C3_InfeasibleFails ==
  (AllocCalled /\ NumGt(weightSum, Zero) /\ Infeasible)
    => (ret.threw /\ ret.error = "InfeasibleConstraintsError")

\* C4: a ROI sum <= 0 (the empty channel set included) makes allocate fail
\* with DegenerateWeightsError and return no allocation.
C4_DegenerateFails ==
  (AllocCalled /\ NumLe(weightSum, Zero))
    => (ret.threw /\ ret.error = "DegenerateWeightsError")

\* C5: when one channel's proportional seed exceeds its max and the other
\* channels are unconstrained, the capped channel ends at its max and the
\* others absorb the excess (ROI A 4, B 1, max A 50000, budget 100000 gives
\* A = 50000 and B = 50000).
OnlyCapped(c) ==
  /\ c \in fitted /\ fitted # {c}
  /\ DOMAIN args.constraints = {c}
  /\ HasMax(c) /\ ~HasMin(c)
  /\ NumGt(Proportional(c), args.constraints[c].max)

C5_CappedAtMax ==
  \A c \in Channels :
    (AllocReturned /\ NumGt(weightSum, Zero) /\ OnlyCapped(c))
      => /\ WithinTol(allocation[c], args.constraints[c].max)
         /\ WithinTol(allocationTotal, args.totalBudget)

\* C6: proportional seed: with a positive weight sum and no binding
\* constraint the returned allocation is (roi[c] / sum of roi) * totalBudget
\* for every channel.
C6_ProportionalSeed ==
  (AllocReturned /\ NumGt(weightSum, Zero) /\ NonBinding)
    => \A c \in fitted : allocation[c] = Proportional(c)

\* C6 witness: ROI A 4, B 1, no constraints, budget 100000 gives 80000, 20000.
C6_Witness ==
  /\ AllocReturned
  /\ fitted = {"A", "B"} /\ roi["A"] = Num(4) /\ roi["B"] = Num(1)
  /\ args.constraints = Empty /\ args.totalBudget = Num(100000)
  /\ allocation["A"] = Num(80000) /\ allocation["B"] = Num(20000)

----------------------------------------------------------------------------
(* Claims about generate_report_data *)

performance == ret.value
grandTotal ==
  SumOver([c \in DOMAIN performance |-> performance[c].total_contribution],
          DOMAIN performance)
shareSum ==
  SumOver([c \in DOMAIN performance |-> performance[c].contribution_percentage],
          DOMAIN performance)

series == results.channel_contributions
Misaligned == \E c1 \in DOMAIN series, c2 \in DOMAIN series : Len(series[c1]) # Len(series[c2])

RECURSIVE PrefixSum(_, _)
PrefixSum(s, i) == IF i = 0 THEN Zero ELSE NumAdd(s[i], PrefixSum(s, i - 1))

seriesTotal(c) == PrefixSum(series[c], Len(series[c]))
allSeriesTotal == SumOver([c \in DOMAIN series |-> seriesTotal(c)], DOMAIN series)

----------------------------------------------------------------------------
(* Relational claims about get_optimal_budget_allocation *)

\* the allocation for other ROI means, same budget and constraints
AllocationFor(roiMeans) ==
  Allocate([c \in DOMAIN roiMeans |-> PointEstimate(roiMeans[c])],
           args.totalBudget, args.constraints)

\* no clamp changes a seed of these ROI means
Unclamped(roiMeans) ==
  ApplyConstraints(SeedAllocation(roiMeans, args.totalBudget), args.constraints)
    = SeedAllocation(roiMeans, args.totalBudget)

\* raising channel c's ROI to higher raises c's amount and no other amount
RaiseIsMonotone(c, higher) ==
  LET raised == AllocationFor([roi EXCEPT ![c] = higher])
  IN  /\ NumGt(raised[c], allocation[c])
      /\ \A o \in fitted \ {c} : NumLe(raised[o], allocation[o])

Raisable(c, higher) ==
  /\ NumGt(higher, roi[c])
  /\ Unclamped([roi EXCEPT ![c] = higher])

\* C14 as stated: with no binding constraints and a positive weight sum,
\* strictly increasing one channel's ROI strictly increases its share and
\* does not increase any other channel's share.
C14_Monotone ==
  (AllocReturned /\ NumGt(weightSum, Zero) /\ NumGt(args.totalBudget, Zero) /\ Unclamped(roi))
    => \A c \in fitted : \A higher \in KernelRoiMeans :
         Raisable(c, higher) => RaiseIsMonotone(c, higher)

\* the other channels' ROI are all >= 0 and one of them is > 0
OthersPositive(c) ==
  /\ \A o \in fitted \ {c} : NumLe(Zero, roi[o])
  /\ \E o \in fitted \ {c} : NumGt(roi[o], Zero)

\* C14 amended: the same, for a channel whose other channels all have ROI
\* >= 0 and at least one of them ROI > 0.
C14_MonotoneAmongPositive ==
  (AllocReturned /\ NumGt(weightSum, Zero) /\ NumGt(args.totalBudget, Zero) /\ Unclamped(roi))
    => \A c \in fitted : \A higher \in KernelRoiMeans :
         (Raisable(c, higher) /\ OthersPositive(c)) => RaiseIsMonotone(c, higher)

\* C14 witness: ROI A 1, B 1 without constraints; raising A to 4 moves A from
\* half of the budget to four fifths and B from half to one fifth.
C14_Witness ==
  /\ AllocReturned
  /\ fitted = {"A", "B"} /\ roi["A"] = Num(1) /\ roi["B"] = Num(1)
  /\ args.constraints = Empty /\ args.totalBudget = Num(100000)
  /\ allocation["A"] = Num(50000)
  /\ AllocationFor([roi EXCEPT !["A"] = Num(4)])["A"] = Num(80000)
  /\ AllocationFor([roi EXCEPT !["A"] = Num(4)])["B"] = Num(20000)

----------------------------------------------------------------------------
(* Claims about the wrapper's calls *)

wrapper == <<data, model, results, channelColumns>>
IsAllocate(r) == r.op = "get_optimal_budget_allocation"
IsReport(r) == r.op = "generate_report_data"

\* C15: a call of allocate or aggregate, successful or failed, leaves the
\* wrapper's data, model, results and channel list unchanged.
C15_NoSideEffects ==
  [][(IsAllocate(ret') \/ IsReport(ret')) => UNCHANGED wrapper]_vars

\* C15 witness: an aggregate call that failed on a fitted wrapper.
C15_Witness == IsReport(ret) /\ ret.threw /\ ~results.null

AllocFailure == {"DegenerateWeightsError", "InfeasibleConstraintsError"}

\* C16: allocate has exactly two failure outcomes, DegenerateWeightsError
\* for a weight sum <= 0 and InfeasibleConstraintsError for infeasible
\* constraints, and a failed call delivers no allocation.
C16_TwoFailures ==
  AllocCalled
    => /\ ret.threw <=> (NumLe(weightSum, Zero) \/ Infeasible)
       /\ ret.threw => (ret.error \in AllocFailure /\ ret.value = Empty)
       /\ ret.threw => (ret.error = "DegenerateWeightsError" <=> NumLe(weightSum, Zero))

\* C17: every call of allocate ends in exactly one of two outcomes: a
\* returned allocation within all bounds that sums to totalBudget, or
\* InfeasibleConstraintsError.
C17_TwoOutcomes ==
  (AllocCalled /\ NumGt(weightSum, Zero) /\ NumGt(args.totalBudget, Zero))
    => \/ ret.threw /\ ret.error = "InfeasibleConstraintsError"
       \/ /\ ~ret.threw
          /\ \A c \in fitted : InBounds(c)
          /\ WithinTol(allocationTotal, args.totalBudget)

\* C19: while fit_model has not succeeded (results is null, and only a
\* successful fit_model makes it non-null), get_optimal_budget_allocation and
\* generate_report_data fail with "No model results. Call fit_model()
\* first.", return nothing and leave the wrapper unchanged.
C19_OrderingGuard ==
  [][/\ (results.null /\ (IsAllocate(ret') \/ IsReport(ret')))
          => (ret' \in {Thrown("get_optimal_budget_allocation", NoResults),
                        Thrown("generate_report_data", NoResults)}
              /\ UNCHANGED wrapper)
     /\ (results.null /\ ~results'.null)
          => (ret'.op = "fit_model" /\ ~ret'.threw)
     /\ ((IsAllocate(ret') \/ IsReport(ret')) /\ ~ret'.threw) => ~results.null]_vars

\* C19 witness: allocate was called before any fit and threw the guard error.
C19_Witness ==
  results.null /\ ret = Thrown("get_optimal_budget_allocation", NoResults)

\* C20: preprocess_data and build_model fail with "No data loaded. Call
\* load_data() first." while data is not loaded, fit_model fails with "No
\* model built. Call build_model() first." while no model is built; model is
\* set only by a successful build_model on loaded data, results only by a
\* successful fit_model on a built model, data only by load_data; a failed
\* call sets neither model nor results.
C20_LifecycleOrder ==
  [][/\ (data.null /\ ret'.op \in {"preprocess_data", "build_model"})
          => (ret'.threw /\ ret'.error = NoData)
     /\ (model.null /\ ret'.op = "fit_model")
          => (ret'.threw /\ ret'.error = NoModel)
     /\ model' # model
          => (ret'.op = "build_model" /\ ~ret'.threw /\ ~data.null)
     /\ results' # results
          => (ret'.op = "fit_model" /\ ~ret'.threw /\ ~model.null)
     /\ data' # data => ret'.op = "load_data"
     /\ ret'.threw => (model' = model /\ results' = results)]_vars

\* C20 witness: fit_model has succeeded (on a model built from loaded data).
C20_Witness == ret = Returned("fit_model", Empty) /\ ~results.null /\ ~model.null

\* the wrapper request i works on
wrapperOf(i) ==
  IF route.cur = i
  THEN [data |-> data, model |-> model, results |-> results,
        channelColumns |-> channelColumns]
  ELSE route.parked[i]

\* request i has been answered 200
Answered(i) == route.pc[i] = "done" /\ route.response[i].status = 200

\* the answer to request i is computed from the request's own data, fitted
\* results, budget and constraints
OwnAnswer(i) ==
  LET b == route.body[i]
      r == route.response[i]
  IN  /\ ~r.results.null
      /\ r.results = wrapperOf(i).results
      /\ DOMAIN r.results.roi_values = Range(b.data.channels)
      /\ DOMAIN r.results.channel_contributions = Range(b.data.channels)
      /\ r.reportData = ChannelPerformance(r.results, b.data.channels)
      /\ r.budgetAllocation.null = ~b.optimizeBudget
      /\ b.optimizeBudget =>
           r.budgetAllocation.value =
             Allocate(r.results.roi_values, RouteBudget(b), b.budgetConstraints)

\* the wrapper of request i holds nothing but what the request put in it
OwnWrapper(i) ==
  LET w == wrapperOf(i)
      b == route.body[i]
  IN  /\ w.data \in {NullData, b.data}
      /\ w.channelColumns \in {<<>>, b.data.channels}
      /\ ~w.model.null => w.model.channels = b.data.channels
      /\ ~w.results.null => DOMAIN w.results.roi_values = Range(b.data.channels)

\* C18: when two model requests are handled with their wrapper steps
\* interleaved in any order, each request works on its own wrapper, and the
\* allocation and the report it is answered with are computed from its own
\* data, fitted results, budget and constraints only.
C18_NoInterference ==
  \A i \in Requests : OwnWrapper(i) /\ (Answered(i) => OwnAnswer(i))

\* request 1 has been answered 200 with an allocation while request 2, for
\* different data, has fitted its model and has its allocation still to do
C18_Witness ==
  /\ Answered(1)
  /\ ~route.response[1].budgetAllocation.null
  /\ route.pc[2] = "allocate"
  /\ ~wrapperOf(2).results.null
  /\ route.body[1].data # route.body[2].data

----------------------------------------------------------------------------
(* Claims about the steps of get_optimal_budget_allocation *)

\* the allocation of the last call after its seed step and after its clamp
\* step
seed == SeedAllocation(roi, args.totalBudget)
clamped == ApplyConstraints(seed, args.constraints)

Constrained(c) == c \in DOMAIN args.constraints
\* min <= max, for the bounds that are given
Ordered(c) ==
  (HasMin(c) /\ HasMax(c)) => NumLe(args.constraints[c].min, args.constraints[c].max)
\* v lies in the interval of channel c
Within(v, c) ==
  /\ HasMin(c) => NumLe(args.constraints[c].min, v)
  /\ HasMax(c) => NumLe(v, args.constraints[c].max)

currentTotal == SumOver(clamped, fitted)
scalingFactor == NumDiv(args.totalBudget, currentTotal)

\* the ratio of the amounts of c and e is the same in the allocations before
\* and after, where the ratio before is a number
SameRatio(before, after, c, e) ==
  IsFinite(NumDiv(before[c], before[e]))
    => (IsFinite(NumDiv(after[c], after[e]))
        /\ NumDiv(after[c], after[e]) = NumDiv(before[c], before[e]))

----------------------------------------------------------------------------
(* Claims about fit_model *)

\* C23: every RoiEstimate stored by fit_model has
\* lower_bound <= mean <= upper_bound, std >= 0 and lower_bound >= 0, for
\* every channel and every value the mock generator draws (mean in [0.5, 5),
\* std = 0.2 * mean, bounds = mean -/+ 1.96 * std).
C23_RoiEstimate ==
  ~results.null =>
    \A c \in fitted :
      LET e == results.roi_values[c]
      IN  /\ NumLe(e.lower_bound, e.mean)
          /\ NumLe(e.mean, e.upper_bound)
          /\ NumLe(Zero, e.std)
          /\ NumLe(Zero, e.lower_bound)
          /\ e.std = NumMul(e.mean, Fin(1, 5))
          /\ e.upper_bound = NumAdd(e.mean, NumMul(Fin(49, 25), e.std))

\* fit_model has stored an estimate with the least mean the generator draws
C23_Witness ==
  /\ ret = Returned("fit_model", Empty)
  /\ \E c \in fitted : results.roi_values[c].mean = Fin(1, 2)


----------------------------------------------------------------------------
(* Claims about the wrapper's fields *)

\* results are held only with a model and a model only with data
Layered ==
  /\ ~results.null => ~model.null
  /\ ~model.null => ~data.null

\* a step sets none of data, model and results back to null
StaysSet ==
  /\ ~data.null => ~data'.null
  /\ ~model.null => ~model'.null
  /\ ~results.null => ~results'.null

\* C24: in every reachable state of a wrapper results non-null implies model
\* non-null and model non-null implies data non-null, and once set none of
\* data, model and results becomes null again under any sequence of calls
\* (load_data with a null data argument included).
C24_NeverNullAgain == []Layered /\ [][StaysSet]_vars


\* C25: once fit_model has succeeded generate_report_data always succeeds and
\* reports exactly the channels get_optimal_budget_allocation allocates over
\* (those of the fitted results), also after a later load_data that changes
\* the wrapper's channel list without a new fit.
C25_ReportsFittedChannels ==
  ReportCalled =>
    /\ ~ret.threw
    /\ DOMAIN ret.value = DOMAIN SeedAllocation(roi, Zero)


\* C26: a load_data call that throws (data null or undefined and no channel
\* columns given) leaves the wrapper's data and column fields as they were
\* before the call.
C26_FailedLoadKeepsFields ==
  [][(ret'.op = "load_data" /\ ret'.threw) => UNCHANGED <<data, channelColumns>>]_vars


----------------------------------------------------------------------------
(* Claims about the channels of an allocation *)

\* the constraints of the last call that name a fitted channel
fittedConstraints ==
  [c \in DOMAIN args.constraints \cap fitted |-> args.constraints[c]]

\* C27: the key set of a returned allocation is the set of channels of the
\* fitted ROI values: a constraint naming a channel that was not fitted is
\* ignored, adds no key and does not change the amounts of the other channels.
C27_FittedKeysOnly ==
  AllocReturned =>
    /\ DOMAIN allocation = fitted
    /\ allocation = Allocate(results.roi_values, args.totalBudget, fittedConstraints)

\* an allocation with finite amounts returned for constraints that give a
\* positive min to a channel that was not fitted
C27_Witness ==
  /\ AllocReturned
  /\ fitted # {}
  /\ \A c \in fitted : IsFinite(allocation[c])
  /\ \E c \in DOMAIN args.constraints \ fitted :
       args.constraints[c].hasMin /\ NumLt(Zero, args.constraints[c].min)


----------------------------------------------------------------------------
(* Claims about the model API route *)

\* the wrapper call a request makes at each position
RouteOp ==
  [load_data |-> "load_data", preprocess_data |-> "preprocess_data",
   build_model |-> "build_model", fit_model |-> "fit_model",
   allocate |-> "get_optimal_budget_allocation", report |-> "generate_report_data"]

\* the position after each wrapper call of request i that returns
RouteOrder(i) ==
  [load_data |-> "preprocess_data", preprocess_data |-> "build_model",
   build_model |-> "fit_model",
   fit_model |-> IF route.body[i].optimizeBudget THEN "allocate" ELSE "report",
   allocate |-> "report", report |-> "done"]

\* a step of request i from a wrapper position makes that position's call on
\* the request's wrapper and, when the call returns, goes on in the order
InOrder(i) ==
  (route.pc[i] \in DOMAIN RouteOp /\ route'.pc[i] # route.pc[i]) =>
    /\ ret'.op = RouteOp[route.pc[i]]
    /\ route'.pc[i] = IF ret'.threw THEN "done" ELSE RouteOrder(i)[route.pc[i]]

\* the wrapper of a request starts fresh
FreshStart(i) ==
  route.pc[i] \in {"validate", "fetch", "process", "load_data"} => wrapperOf(i) = NewWrapper

LifecycleErrors == {NoData, NoModel, NoResults}

\* C28: the route drives a fresh wrapper in the order load_data,
\* preprocess_data, build_model, fit_model, then
\* get_optimal_budget_allocation only when optimizeBudget is set, then
\* generate_report_data; no lifecycle precondition error occurs in a request,
\* and the budgetAllocation of the response is null exactly when
\* optimizeBudget is not set.
C28_RouteOrder ==
  /\ [](\A i \in Requests :
          /\ FreshStart(i)
          /\ Answered(i) =>
               (route.response[i].budgetAllocation.null = ~route.body[i].optimizeBudget))
  /\ [](ret.threw => ret.error \notin LifecycleErrors)
  /\ [][\A i \in Requests : InOrder(i)]_vars

\* one request answered with an allocation and the other without
C28_Witness ==
  /\ \A i \in Requests : Answered(i)
  /\ ~route.response[1].budgetAllocation.null
  /\ route.response[2].budgetAllocation.null


\* what request i has gone through: nothing after a missing dataSourceId, a
\* failed fetch or failed processing
Stopped(i) ==
  LET b == route.body[i]
  IN  IF ~b.dataSourceId THEN {"validate", "done"}
      ELSE IF b.throws = "fetch" \/ ~b.fetchOk THEN {"validate", "fetch", "done"}
      ELSE IF b.throws = "process" \/ ~b.processOk
      THEN {"validate", "fetch", "process", "done"}
      ELSE {"validate", "fetch", "process", "done"} \cup DOMAIN RouteOp

\* the status a request is answered with before it has a wrapper
EarlyStatus(i) ==
  LET b == route.body[i]
  IN  IF ~b.dataSourceId THEN 400
      ELSE IF b.throws = "fetch" THEN 500
      ELSE IF ~b.fetchOk THEN 400
      ELSE IF b.throws = "process" THEN 500
      ELSE 400

\* request i was stopped before a wrapper was created for it
Early(i) == Stopped(i) \cap DOMAIN RouteOp = {}

Responded(i) ==
  LET r == route.response[i]
  IN  /\ r.status \in {200, 400, 500}
      /\ r.status # 200 =>
           (r.results.null /\ r.reportData = Empty /\ r.budgetAllocation.null)

\* a wrapper call of request i that throws is answered 500
ThrowAnswered(i) ==
  (route.pc[i] \in DOMAIN RouteOp /\ route'.pc[i] # route.pc[i] /\ ret'.threw) =>
    route'.response[i].status = 500

\* C29: no failure crashes the handler: a request without dataSourceId is
\* answered 400 before any data is fetched, a failed fetch or failed data
\* processing is answered 400 before any wrapper is created, and an exception
\* thrown by a wrapper operation is answered 500, with no model results,
\* report data or allocation in the response.
C29_ErrorResponses ==
  /\ [](\A i \in Requests :
          /\ route.pc[i] \in Stopped(i)
          /\ route.pc[i] = "done" => Responded(i)
          /\ Early(i) => wrapperOf(i) = NewWrapper
          /\ (Early(i) /\ route.pc[i] = "done") =>
               route.response[i].status = EarlyStatus(i))
  /\ [][\A i \in Requests : ThrowAnswered(i)]_vars

\* request 1 answered 500 after its load_data threw, request 2 answered 400
\* for its failed fetch
C29_Witness ==
  /\ route.pc[1] = "done" /\ route.response[1].status = 500
  /\ route.body[1].data.null /\ ~Early(1)
  /\ route.pc[2] = "done" /\ route.response[2].status = 400
  /\ route.body[2].dataSourceId /\ ~route.body[2].fetchOk


----------------------------------------------------------------------------
(* Claims about the shares of a report *)

NonNegativeSeries ==
  \A c \in DOMAIN series : \A i \in DOMAIN series[c] : NumLe(Zero, series[c][i])

====
